---------------------------- MODULE Spec2Model ----------------------------
(***************************************************************************)
(* A model of the Unposted audio-journaling application (src/app.py).      *)
(*                                                                         *)
(* Text is modelled as a sequence of one-character strings, so that the    *)
(* string operations of the program (lower, strip, split, count, "in",     *)
(* slicing, re.sub, re.split) are computed character by character.         *)
(*                                                                         *)
(* Two specifications are given:                                           *)
(*   Spec      the application: every run of the script (one page render)  *)
(*             is one action on the SQLite tables entries and streaks;     *)
(*   SpecText  the pure text functions applied to a bounded set of texts.  *)
(***************************************************************************)
EXTENDS Integers, Sequences, FiniteSets

VARIABLES
    entries,    \* committed rows of table entries, in rowid order
    streaks,    \* committed rows of table streaks: a function date -> count
    screen,     \* the last run of the script: the page, its notices and, for a
                \* run that saved an entry, the raw results behind that entry
    input,      \* SpecText: the text the functions are applied to
    result      \* SpecText: the outcome of the last application

vars == <<entries, streaks, screen, input, result>>

---------------------------------------------------------------------------
(* Characters and the string methods the program uses                      *)

UpperChars == <<"A","B","C","D","E","F","G","H","I","J","K","L","M","N","O","P","Q","R","S","T","U","V","W","X","Y","Z">>

LowerChars == <<"a","b","c","d","e","f","g","h","i","j","k","l","m","n","o","p","q","r","s","t","u","v","w","x","y","z">>

Whitespace == {" ", "\n", "\t"}

IsSpace(ch) == ch \in Whitespace

\* the position of ch in the alphabet q, or 0
RECURSIVE IndexIn(_, _, _)
IndexIn(q, ch, i) ==
    IF i > Len(q) THEN 0
    ELSE IF q[i] = ch THEN i ELSE IndexIn(q, ch, i + 1)

LowerChar(ch) ==
    LET i == IndexIn(UpperChars, ch, 1)
    IN  IF i = 0 THEN ch ELSE LowerChars[i]

UpperChar(ch) ==
    LET i == IndexIn(LowerChars, ch, 1)
    IN  IF i = 0 THEN ch ELSE UpperChars[i]

\* str.lower()
RECURSIVE ToLower(_)
ToLower(s) ==
    IF s = <<>> THEN <<>>
    ELSE <<LowerChar(Head(s))>> \o ToLower(Tail(s))

\* str.capitalize()
Capitalize(s) ==
    IF s = <<>> THEN <<>>
    ELSE <<UpperChar(s[1])>> \o ToLower(Tail(s))

RECURSIVE LStrip(_)
LStrip(s) ==
    IF s = <<>> THEN <<>>
    ELSE IF IsSpace(Head(s)) THEN LStrip(Tail(s)) ELSE s

RECURSIVE RStrip(_)
RStrip(s) ==
    IF s = <<>> THEN <<>>
    ELSE IF IsSpace(s[Len(s)]) THEN RStrip(SubSeq(s, 1, Len(s) - 1)) ELSE s

\* str.strip()
Strip(s) == RStrip(LStrip(s))

\* s[:n]
Take(s, n) == SubSeq(s, 1, IF n < Len(s) THEN n ELSE Len(s))

\* s[n:]
Drop(s, n) == SubSeq(s, n + 1, Len(s))

StartsWith(s, p) == Len(p) <= Len(s) /\ SubSeq(s, 1, Len(p)) = p

\* p in s
Contains(s, p) ==
    \E i \in 0..(Len(s) - Len(p)) : SubSeq(s, i + 1, i + Len(p)) = p

\* s.count(p): the number of non-overlapping occurrences, scanning from the left
RECURSIVE Count(_, _)
Count(s, p) ==
    IF Len(s) < Len(p) THEN 0
    ELSE IF StartsWith(s, p) THEN 1 + Count(Drop(s, Len(p)), p)
    ELSE Count(Tail(s), p)

\* the longest prefix of s without whitespace
RECURSIVE Word(_)
Word(s) ==
    IF s = <<>> \/ IsSpace(Head(s)) THEN <<>>
    ELSE <<Head(s)>> \o Word(Tail(s))

\* s.split()[0] if s.split() else dflt
FirstToken(s, dflt) ==
    IF LStrip(s) = <<>> THEN dflt ELSE Word(LStrip(s))

\* the longest prefix of s without a line break
RECURSIVE Line(_)
Line(s) ==
    IF s = <<>> \/ Head(s) = "\n" THEN <<>>
    ELSE <<Head(s)>> \o Line(Tail(s))

IsAZ(ch) == IndexIn(LowerChars, ch, 1) # 0

\* re.sub(r"[^a-z]", "", s)
OnlyAZ(s) == SelectSeq(s, IsAZ)

\* the elements of a sequence
Range(q) == {q[i] : i \in 1..Len(q)}

---------------------------------------------------------------------------
(* Fallbacks when Groq isn't available (src/app.py, lines 94-156)          *)

Happy == <<"H","a","p","p","y">>

Sad == <<"S","a","d">>

Angry == <<"A","n","g","r","y">>

Calm == <<"C","a","l","m">>

Stressed == <<"S","t","r","e","s","s","e","d">>

EMO_LABELS == <<Happy, Sad, Angry, Calm, Stressed>>

\* the dict EMO_KEYWORDS as its items, in declaration order
EMO_KEYWORDS == <<
    <<Happy, <<<<"h","a","p","p","y">>, <<"j","o","y">>, <<"j","o","y","f","u","l">>, <<"e","x","c","i","t","e","d">>, <<"g","o","o","d">>, <<"g","r","e","a","t">>,
               <<"l","o","v","e">>, <<"g","r","a","t","e","f","u","l">>, <<"p","r","o","u","d">>>> >>,
    <<Sad, <<<<"s","a","d">>, <<"d","o","w","n">>, <<"d","e","p","r","e","s","s","e","d">>, <<"b","l","u","e">>, <<"t","i","r","e","d">>, <<"l","o","n","e","l","y">>,
             <<"u","p","s","e","t">>, <<"c","r","y">>, <<"u","n","h","a","p","p","y">>>> >>,
    <<Angry, <<<<"a","n","g","r","y">>, <<"m","a","d">>, <<"f","u","r","i","o","u","s">>, <<"f","r","u","s","t","r","a","t","e","d">>, <<"a","n","n","o","y","e","d">>,
               <<"i","r","r","i","t","a","t","e","d">>, <<"r","a","g","e">>>> >>,
    <<Stressed, <<<<"s","t","r","e","s","s","e","d">>, <<"a","n","x","i","o","u","s">>, <<"o","v","e","r","w","h","e","l","m","e","d">>, <<"w","o","r","r","i","e","d">>,
                  <<"n","e","r","v","o","u","s">>, <<"t","e","n","s","e">>, <<"p","r","e","s","s","u","r","e">>>> >>,
    <<Calm, <<<<"c","a","l","m">>, <<"p","e","a","c","e","f","u","l">>, <<"r","e","l","a","x","e","d">>, <<"o","k","a","y">>, <<"f","i","n","e">>>> >>
>>

Sentinels == {<<>>, <<"u","n","a","v","a","i","l","a","b","l","e">>, <<"e","r","r","o","r">>, <<"n","/","a">>}

\* is_unavailable without .lower(): a sentinel is recognised in lower case only
is_unavailable_no_lower(s) == Strip(s) \in Sentinels

\* is_unavailable(s) for a string s (None is never passed: groq_generate
\* returns a string on every path)
is_unavailable(s) == ToLower(Strip(s)) \in Sentinels

\* the sum of t.count(kw) over the keywords kws
RECURSIVE CountAll(_, _)
CountAll(t, kws) ==
    IF kws = <<>> THEN 0
    ELSE Count(t, Head(kws)) + CountAll(t, Tail(kws))

\* EMO_KEYWORDS[label]
KeywordsOf(label) ==
    EMO_KEYWORDS[CHOOSE i \in 1..Len(EMO_KEYWORDS) : EMO_KEYWORDS[i][1] = label][2]

\* scores[label] after the loops of simple_emotion_fallback, t = text.lower()
Score(label, t) == CountAll(t, KeywordsOf(label))

\* the dict scores as the sequence of its values: it is built from EMO_LABELS,
\* so it is iterated in the order of EMO_LABELS
RECURSIVE Scores(_, _)
Scores(labels, t) ==
    IF labels = <<>> THEN <<>>
    ELSE <<Score(Head(labels), t)>> \o Scores(Tail(labels), t)

\* a max that keeps the last maximum it meets
MaxByScoreLast(scores) ==
    EMO_LABELS[CHOOSE i \in 1..Len(scores) :
                  /\ \A j \in 1..Len(scores) : scores[j] <= scores[i]
                  /\ \A j \in (i + 1)..Len(scores) : scores[j] < scores[i]]

\* max(scores, key=scores.get): max keeps the first maximum it meets
MaxByScore(scores) ==
    EMO_LABELS[CHOOSE i \in 1..Len(scores) :
                  /\ \A j \in 1..Len(scores) : scores[j] <= scores[i]
                  /\ \A j \in 1..(i - 1) : scores[j] < scores[i]]

simple_emotion_fallback(text) ==
    LET scores == Scores(EMO_LABELS, ToLower(text))
    IN  IF \A i \in 1..Len(scores) : scores[i] = 0
        THEN Calm
        ELSE MaxByScore(scores)

\* the loop of sanitize_emotion_label returning lab.lower() for lab
FirstLabelInLowered(rl) ==
    LET hits == {i \in 1..Len(EMO_LABELS) : Contains(rl, ToLower(EMO_LABELS[i]))}
    IN  IF hits = {} THEN <<>>
        ELSE ToLower(EMO_LABELS[CHOOSE i \in hits : \A j \in hits : i <= j])

\* the first label of EMO_LABELS whose lower-cased form occurs in rl, if any
FirstLabelIn(rl) ==
    LET hits == {i \in 1..Len(EMO_LABELS) : Contains(rl, ToLower(EMO_LABELS[i]))}
    IN  IF hits = {} THEN <<>>
        ELSE EMO_LABELS[CHOOSE i \in hits : \A j \in hits : i <= j]

sanitize_emotion_label(raw) ==
    IF is_unavailable(raw) THEN Calm
    ELSE LET rl == ToLower(Strip(raw))
             tok == OnlyAZ(FirstToken(rl, <<"c","a","l","m">>))
         IN  IF FirstLabelIn(rl) # <<>> THEN FirstLabelIn(rl)
             ELSE IF \E i \in 1..Len(EMO_LABELS) : ToLower(EMO_LABELS[i]) = tok
                  THEN Capitalize(tok)
                  ELSE Calm

SentenceEnd == {".", "!", "?"}

\* re.split(r"(?<=[.!?])\s+", s): s is cut at every run of whitespace that
\* follows one of . ! ?   (acc is the piece being read)
RECURSIVE SplitSentences(_, _)
SplitSentences(s, acc) ==
    IF s = <<>> THEN <<acc>>
    ELSE IF /\ acc # <<>>
            /\ acc[Len(acc)] \in SentenceEnd
            /\ IsSpace(Head(s))
         THEN <<acc>> \o SplitSentences(LStrip(s), <<>>)
         ELSE SplitSentences(Tail(s), Append(acc, Head(s)))

NonEmpty(s) == s # <<>>

SummaryOneSentence == 300

SummaryTwoSentences == 400

SummaryNoSentence == 200

summary_fallback(text) ==
    LET parts == SplitSentences(Strip(text), <<>>)
        sents == SelectSeq([i \in 1..Len(parts) |-> Strip(parts[i])], NonEmpty)
    IN  IF sents = <<>> THEN Take(text, SummaryNoSentence)
        ELSE IF Len(sents) = 1 THEN Take(sents[1], SummaryOneSentence)
        ELSE Take(sents[1] \o <<" ">> \o sents[2], SummaryTwoSentences)

KeyPointLen == 120

FeltPrefix == <<"I","t"," ","s","o","u","n","d","s"," ","l","i","k","e"," ","y","o","u"," ","f","e","l","t"," ">>

FeltSuffix == <<" ","w","h","i","l","e"," ","d","e","s","c","r","i","b","i","n","g"," ","t","h","i","s",".">>

\* "\n".join(f"- {p}" for p in pts)
JoinBullets(pts) ==
    <<"-"," ">> \o pts[1] \o <<"\n">> \o <<"-"," ">> \o pts[2] \o <<"\n">> \o <<"-"," ">> \o pts[3]

reflections_fallback(text) ==
    LET emo == simple_emotion_fallback(text)
        first_line == IF Strip(text) # <<>> THEN Line(Strip(text)) ELSE <<>>
    IN  JoinBullets(<<
            FeltPrefix \o ToLower(emo) \o FeltSuffix,
            IF first_line # <<>>
            THEN <<"A"," ","k","e","y"," ","p","o","i","n","t"," ","y","o","u"," ","m","e","n","t","i","o","n","e","d",":"," ">> \o Take(first_line, KeyPointLen)
            ELSE <<"R","e","c","a","l","l"," ","o","n","e"," ","c","o","n","c","r","e","t","e"," ","m","o","m","e","n","t"," ","f","r","o","m"," ","t","o","d","a","y"," ","t","h","a","t"," ","s","t","a","n","d","s"," ","o","u","t",".">>,
            <<"W","h","a","t"," ","i","s"," ","o","n","e"," ","s","m","a","l","l"," ","s","t","e","p"," ","y","o","u"," ","c","a","n"," ","t","a","k","e"," ","t","o","m","o","r","r","o","w"," ","t","o"," ","s","u","p","p","o","r","t"," ","y","o","u","r","s","e","l","f","?">>
        >>)

---------------------------------------------------------------------------
(* Remote calls (src/app.py, lines 78-92 and 172-185)                      *)

Unavailable == <<"U","n","a","v","a","i","l","a","b","l","e">>

\* groq_generate with the outcome of chat.completions.create: an exception
\* (ok = FALSE) or the content of the first choice
groq_generate(groq_client, outcome) ==
    IF ~groq_client THEN Unavailable
    ELSE IF outcome.ok THEN Strip(outcome.content)
    ELSE Unavailable

\* the exceptions of the Deepgram request that are a RequestException
RequestExceptions == {"ConnectionError", "Timeout", "HTTPError"}

\* what a malformed response body raises when the transcript is looked up
ResponseExceptions == {"KeyError"}

\* the transcription without .strip() on the transcript
TranscribeNoStrip(deepgram_key, dg) ==
    IF ~deepgram_key
    THEN [raised |-> "", text |-> <<>>, notices |-> {"error: Transcription unavailable"}]
    ELSE IF dg.kind = "transcript"
         THEN [raised |-> "", text |-> dg.text, notices |-> {}]
         ELSE [raised |-> IF dg.kind \in RequestExceptions
                          THEN "RequestException"
                          ELSE "Exception",
               text |-> <<>>, notices |-> {}]

\* a transcription that turns a failed request into an empty transcript
TranscribeSwallows(deepgram_key, dg) ==
    IF ~deepgram_key
    THEN [raised |-> "", text |-> <<>>, notices |-> {"error: Transcription unavailable"}]
    ELSE IF dg.kind = "transcript"
         THEN [raised |-> "", text |-> Strip(dg.text), notices |-> {}]
         ELSE [raised |-> "", text |-> <<>>, notices |-> {}]

\* lines 168-185: the transcription, or the exception that leaves the block
Transcribe(deepgram_key, dg) ==
    IF ~deepgram_key
    THEN [raised |-> "", text |-> <<>>, notices |-> {"error: Transcription unavailable"}]
    ELSE IF dg.kind = "transcript"
         THEN [raised |-> "", text |-> Strip(dg.text), notices |-> {}]
         ELSE [raised |-> IF dg.kind \in RequestExceptions
                          THEN "RequestException"
                          ELSE "Exception",
               text |-> <<>>, notices |-> {}]

\* lines 256-261: the notice of the handler that catches the exception
ExceptNotice(raised) ==
    IF raised = "RequestException"
    THEN "error: API Error: <exception>"
    ELSE "error: Unexpected error: <exception>"

---------------------------------------------------------------------------
(* The answers of the two remote services that the model draws from        *)

\* what Deepgram may answer: a transcript, or a failure of the request
Recordings == {<<>>, <<" "," ">>, <<" ","G","r","e","a","t"," ","d","a","y","."," ","P","r","o","u","d","!"," "," ","o","k"," ">>, <<"s","o"," ","t","i","r","e","d","\n","b","u","t"," ","c","a","l","m">>}

DeepgramOutcomes ==
    {[kind |-> "transcript", text |-> t] : t \in Recordings}
    \cup {[kind |-> k, text |-> <<>>] : k \in RequestExceptions \cup ResponseExceptions}

Raises == [ok |-> FALSE, content |-> <<>>]

Answer(text) == [ok |-> TRUE, content |-> text]

\* Each call meets one kind of unusable result: an exception, a sentinel, an
\* empty text
EmotionAnswers == {Raises, Answer(<<" ","S","a","d",".","\n">>)}

SummaryAnswers == {Answer(<<" ","n","/","A"," ">>), Answer(<<" ","F","i","n","e","."," ">>)}

ReflectionAnswers == {Answer(<<>>), Answer(<<"-"," ","a","\n","-"," ","b">>)}

AllAnswers == EmotionAnswers \cup SummaryAnswers \cup ReflectionAnswers

\* the transcripts that reach the processing, and the raw results of a call
Transcripts == {Strip(t) : t \in Recordings} \ {<<>>}

RawResults == {groq_generate(TRUE, o) : o \in AllAnswers} \cup {Unavailable}

\* The text functions are evaluated once for each text the runs can meet
FallbacksOf(t) ==
    [text |-> t,
     emotion |-> simple_emotion_fallback(t),
     summary |-> summary_fallback(t),
     reflection |-> reflections_fallback(t)]

RawOf(r) ==
    [raw |-> r,
     unavailable |-> is_unavailable(r),
     label |-> sanitize_emotion_label(r)]

FallbackTable == {FallbacksOf(t) : t \in Transcripts}

RawTable == {RawOf(r) : r \in RawResults}

Fallbacks(transcription) ==
    IF \E r \in FallbackTable : r.text = transcription
    THEN CHOOSE r \in FallbackTable : r.text = transcription
    ELSE FallbacksOf(transcription)

Raw(raw) ==
    IF \E r \in RawTable : r.raw = raw
    THEN CHOOSE r \in RawTable : r.raw = raw
    ELSE RawOf(raw)

---------------------------------------------------------------------------
(* Entry processing (src/app.py, lines 190-223)                            *)

\* the processing with the emotion answer stored as it came
ProcessEntryUnsanitized(transcription, groq_key, emo_out, sum_out, refl_out) ==
    LET emo_raw == IF groq_key THEN groq_generate(groq_key, emo_out) ELSE Unavailable
        summary_raw == IF groq_key THEN groq_generate(groq_key, sum_out) ELSE Unavailable
        reflection_raw == IF groq_key THEN groq_generate(groq_key, refl_out) ELSE Unavailable
    IN  [emo_raw |-> emo_raw,
         emo_label |-> IF ~Raw(emo_raw).unavailable
                       THEN emo_raw
                       ELSE Fallbacks(transcription).emotion,
         summary_raw |-> summary_raw,
         summary_text |-> IF Raw(summary_raw).unavailable
                          THEN Fallbacks(transcription).summary
                          ELSE summary_raw,
         reflection_raw |-> reflection_raw,
         reflection_output |-> IF Raw(reflection_raw).unavailable
                               THEN Fallbacks(transcription).reflection
                               ELSE reflection_raw,
         groq_calls |-> IF groq_key THEN 3 ELSE 0]

\* lines 199-223: the raw results of the three calls and the values used
ProcessEntry(transcription, groq_key, emo_out, sum_out, refl_out) ==
    LET emo_raw == IF groq_key THEN groq_generate(groq_key, emo_out) ELSE Unavailable
        summary_raw == IF groq_key THEN groq_generate(groq_key, sum_out) ELSE Unavailable
        reflection_raw == IF groq_key THEN groq_generate(groq_key, refl_out) ELSE Unavailable
    IN  [emo_raw |-> emo_raw,
         emo_label |-> IF ~Raw(emo_raw).unavailable
                       THEN Raw(emo_raw).label
                       ELSE Fallbacks(transcription).emotion,
         summary_raw |-> summary_raw,
         summary_text |-> IF Raw(summary_raw).unavailable
                          THEN Fallbacks(transcription).summary
                          ELSE summary_raw,
         reflection_raw |-> reflection_raw,
         reflection_output |-> IF Raw(reflection_raw).unavailable
                               THEN Fallbacks(transcription).reflection
                               ELSE reflection_raw,
         groq_calls |-> IF groq_key THEN 3 ELSE 0]

---------------------------------------------------------------------------
(* Store Entry & Streaks (src/app.py, lines 47-58, 241-251 and 297)        *)

\* INSERT OR REPLACE INTO streaks: date is the primary key
InsertOrReplace(table, row) == {r \in table : r.date # row.date} \cup {row}

\* the streak written with count 1 whatever was read
bumpStreakNoIncrement(table, today) ==
    InsertOrReplace(table, [date |-> today, count |-> 1])

\* lines 242-245
bumpStreak(table, today) ==
    LET fetched == {r \in table : r.date = today}
        new_count == IF fetched # {} THEN (CHOOSE r \in fetched : TRUE).count + 1 ELSE 1
    IN  InsertOrReplace(table, [date |-> today, count |-> new_count])

\* lines 247-250: id INTEGER PRIMARY KEY is the largest rowid plus one
recordEntry(table, today, transcription, out) ==
    Append(table, [id |-> Len(table) + 1,
                   date |-> today,
                   transcription |-> transcription,
                   emotion |-> out.emo_label,
                   summary |-> out.summary_text,
                   reflection |-> out.reflection_output])

\* the statement of lines 242-251 that raises sqlite3.Error, if any
StoreFaults == {"none", "select", "replace", "insert", "commit"}

\* the tables as the connection sees them when lines 242-251 are left:
\* the statements before the failing one have run inside the open transaction
Pending(today, transcription, out, fault) ==
    [streaks |-> IF fault \in {"select", "replace"}
                 THEN streaks
                 ELSE bumpStreak(streaks, today),
     entries |-> IF fault \in {"select", "replace", "insert"}
                 THEN entries
                 ELSE recordEntry(entries, today, transcription, out),
     committed |-> fault = "none"]

\* a close that commits the open transaction
AfterCloseCommits(pending) ==
    [streaks |-> pending.streaks, entries |-> pending.entries]

\* line 297, conn.close(): what was not committed is rolled back
AfterClose(pending) ==
    IF pending.committed
    THEN [streaks |-> pending.streaks, entries |-> pending.entries]
    ELSE [streaks |-> streaks, entries |-> entries]

---------------------------------------------------------------------------
(* The pages (src/app.py, lines 162-295): one action per run of the script *)

NoResult == [fn |-> "none"]

NoStreaks == {}

BlankScreen ==
    [page |-> "none", notices |-> {}, heard |-> "", raised |-> "", fault |-> "none",
     groq_key |-> FALSE, answers |-> <<>>, groq_calls |-> 0, transcription |-> <<>>,
     today |-> <<>>, out |-> <<>>, rows |-> <<>>, total_days |-> 0, recent |-> <<>>]

\* what the recording gave, before the program looks at it
Heard(deepgram_key, dg) ==
    IF ~deepgram_key THEN "no key"
    ELSE IF dg.kind # "transcript" THEN "failed"
    ELSE IF \A i \in DOMAIN dg.text : IsSpace(dg.text[i]) THEN "blank"
    ELSE "speech"

\* the rows table entries may hold, at most
MaxEntries == 2

Dates == {<<"2","0","2","5","-","1","2","-","3","1">>, <<"2","0","2","6","-","0","1","-","0","1">>}

Init ==
    /\ entries = <<>>
    /\ streaks = NoStreaks
    /\ screen = BlankScreen
    /\ input = <<>>
    /\ result = NoResult

\* lines 166-261 and 297 for one recording
Journal(deepgram_key, dg, groq_key, emo_out, sum_out, refl_out, today, fault) ==
    LET tr == Transcribe(deepgram_key, dg)
        base == [BlankScreen EXCEPT !.page = "Journal", !.raised = tr.raised,
                                    !.heard = Heard(deepgram_key, dg)]
    IN  IF tr.raised # ""
        THEN /\ screen' = [base EXCEPT !.notices = {ExceptNotice(tr.raised)}]
             /\ UNCHANGED <<entries, streaks>>
        ELSE IF tr.text = <<>>
        THEN /\ screen' = [base EXCEPT !.notices = tr.notices \cup {"warning: No speech detected"}]
             /\ UNCHANGED <<entries, streaks>>
        ELSE LET out == ProcessEntry(tr.text, groq_key, emo_out, sum_out, refl_out)
                 pending == Pending(today, tr.text, out, fault)
                 db == AfterClose(pending)
                 info == IF groq_key THEN {} ELSE {"info: GROQ_API_KEY not set"}
             IN  /\ screen' =
                        IF fault = "none"
                        THEN [base EXCEPT
                                 !.transcription = tr.text, !.today = today,
                                 !.groq_key = groq_key, !.groq_calls = out.groq_calls,
                                 !.answers = IF groq_key
                                             THEN <<emo_out, sum_out, refl_out>>
                                             ELSE <<>>,
                                 !.out = out,
                                 !.notices = info \cup {"success: Journal saved"}]
                        ELSE [base EXCEPT
                                 !.fault = fault,
                                 !.notices = info \cup {ExceptNotice("Exception")}]
                 /\ entries' = db.entries
                 /\ streaks' = db.streaks

\* placeholders for the calls a run does not make
NoAnswer == Raises

NoRequest == [kind |-> "none", text |-> <<>>]

\* the order of two TEXT values under SQLite's BINARY collation, for the
\* characters of a date
DateChars == <<"-","0","1","2","3","4","5","6","7","8","9">>

RECURSIVE TextLeq(_, _)
TextLeq(a, b) ==
    IF a = <<>> THEN TRUE
    ELSE IF b = <<>> THEN FALSE
    ELSE IF Head(a) = Head(b) THEN TextLeq(Tail(a), Tail(b))
    ELSE IndexIn(DateChars, Head(a), 1) < IndexIn(DateChars, Head(b), 1)

\* the orders in which ORDER BY date DESC may return the rows: SQL leaves
\* the order of rows with equal dates to the engine
OrderByDateDesc(rows) ==
    {q \in [1..Cardinality(rows) -> rows] :
        /\ \A i, j \in DOMAIN q : i # j => q[i] # q[j]
        /\ \A i, j \in DOMAIN q : i < j => TextLeq(q[j].date, q[i].date)}

RecentEntriesLimit == 10

RecentStreaksLimit == 30

\* line 268: the columns selected, with the rowid to tell the rows apart
listRecentEntries(table) ==
    {Take(q, RecentEntriesLimit) :
        q \in OrderByDateDesc({[id |-> r.id, date |-> r.date, emotion |-> r.emotion,
                                summary |-> r.summary] : r \in Range(table)})}

\* line 287
listRecentStreaks(table) ==
    {Take(q, RecentStreaksLimit) : q \in OrderByDateDesc(table)}

\* lines 266-276
PastEntriesPage ==
    /\ \E rows \in listRecentEntries(entries) :
          screen' = [BlankScreen EXCEPT
                        !.page = "Past Entries", !.rows = rows,
                        !.notices = IF rows = <<>> THEN {"info: No entries yet"} ELSE {}]
    /\ UNCHANGED <<entries, streaks, input, result>>

\* lines 281-295
StreakTrackerPage ==
    /\ \E recent \in listRecentStreaks(streaks) :
          screen' = [BlankScreen EXCEPT
                        !.page = "Streak Tracker",
                        !.total_days = Cardinality(streaks),
                        !.recent = recent,
                        !.notices = IF recent = <<>> THEN {"info: No streak data yet"} ELSE {}]
    /\ UNCHANGED <<entries, streaks, input, result>>

JournalPage ==
    /\ \E deepgram_key \in BOOLEAN :
       \E dg \in IF deepgram_key THEN DeepgramOutcomes ELSE {NoRequest} :
          IF Transcribe(deepgram_key, dg).text = <<>>
          THEN Journal(deepgram_key, dg, FALSE, NoAnswer, NoAnswer, NoAnswer, <<>>, "none")
          ELSE /\ Len(entries) < MaxEntries
               /\ \E groq_key \in BOOLEAN, today \in Dates, fault \in StoreFaults :
                     IF groq_key
                     THEN \E emo_out \in EmotionAnswers, sum_out \in SummaryAnswers,
                             refl_out \in ReflectionAnswers :
                             Journal(deepgram_key, dg, groq_key, emo_out, sum_out,
                                     refl_out, today, fault)
                     ELSE Journal(deepgram_key, dg, groq_key, NoAnswer, NoAnswer,
                                  NoAnswer, today, fault)
    /\ UNCHANGED <<input, result>>

Next ==
    \/ JournalPage
    \/ PastEntriesPage
    \/ StreakTrackerPage

Spec == Init /\ [][Next]_vars

---------------------------------------------------------------------------
(* SpecText: the text functions applied to a bounded set of texts          *)

\* the number of fragments a text is built from, at most
MaxFrags == 2

Fragments == {
    <<"u","n","h","a","p","p","y">>, <<"S","a","d">>, <<"m","a","d">>, <<"c","a","l","m">>, <<"s","t","r","e","s","s","e","d">>, <<"j","o","y","f","u","l">>,
    <<"N","/","A">>, <<"U","n","a","v","a","i","l","a","b","l","e">>, <<"x">>, <<"s","-","a","d">>, <<" ">>, <<"!">>
}

RECURSIVE Concats(_)
Concats(n) ==
    IF n = 0 THEN {<<>>}
    ELSE LET prev == Concats(n - 1)
         IN  prev \cup {p \o f : p \in prev, f \in Fragments}

\* s in every letter case
RECURSIVE CaseVariants(_)
CaseVariants(s) ==
    IF s = <<>> THEN {<<>>}
    ELSE {<<ch>> \o r : ch \in {LowerChar(Head(s)), UpperChar(Head(s))},
                        r \in CaseVariants(Tail(s))}

LabelSpellings == UNION {CaseVariants(EMO_LABELS[i]) : i \in 1..Len(EMO_LABELS)}

TextInputs == Concats(MaxFrags) \cup LabelSpellings

InitText ==
    /\ input \in TextInputs
    /\ result = NoResult
    /\ entries = <<>>
    /\ streaks = NoStreaks
    /\ screen = BlankScreen

ApplySanitize ==
    /\ result' = [fn |-> "sanitize",
                  once |-> sanitize_emotion_label(input),
                  twice |-> sanitize_emotion_label(sanitize_emotion_label(input))]
    /\ UNCHANGED <<input, entries, streaks, screen>>

ApplyEmotionFallback ==
    /\ result' = [fn |-> "emotion", label |-> simple_emotion_fallback(input)]
    /\ UNCHANGED <<input, entries, streaks, screen>>

NextText ==
    \/ ApplySanitize
    \/ ApplyEmotionFallback

SpecText == InitText /\ [][NextText]_vars

---------------------------------------------------------------------------
(* The claims                                                              *)

Labels == Range(EMO_LABELS)

JournalRan == screen.page = "Journal"

SavedRun == JournalRan /\ "success: Journal saved" \in screen.notices

LastEntry == entries[Len(entries)]

EntriesOn(date) == {i \in DOMAIN entries : entries[i].date = date}

\* C1: the streaks table holds exactly one record for each date that has a
\* persisted entry and none for another date, and the record's count is the
\* number of entries persisted with that date.
C1_StreaksCountEntries ==
    /\ \A r1, r2 \in streaks : r1.date = r2.date => r1 = r2
    /\ {r.date : r \in streaks} = {entries[i].date : i \in DOMAIN entries}
    /\ \A r \in streaks : r.count = Cardinality(EntriesOn(r.date))

\* two entries were saved on the same date
C1_Witness ==
    /\ Len(entries) = 2
    /\ entries[1].date = entries[2].date
    /\ \E r \in streaks : r.count = 2

\* C2: the emotion stored with every persisted entry is one of the five labels,
\* whatever the remote call returned.
C2_StoredEmotionIsLabel ==
    \A i \in DOMAIN entries : entries[i].emotion \in Labels

\* an entry was saved whose emotion call returned a text that is no label
C2_Witness ==
    /\ SavedRun
    /\ screen.groq_key
    /\ screen.answers[1].ok
    /\ screen.out.emo_raw \notin Labels
    /\ ~is_unavailable(screen.out.emo_raw)
    /\ LastEntry.emotion = Sad

NothingHeard == JournalRan /\ screen.heard \in {"blank", "no key"}

\* C3: a run whose transcript is empty or whitespace-only ends with the
\* no-speech notice, makes no generation call, persists no entry and leaves
\* the streaks table as it was.
C3_EmptyTranscript ==
    [][NothingHeard' =>
          /\ "warning: No speech detected" \in screen'.notices
          /\ "success: Journal saved" \notin screen'.notices
          /\ screen'.groq_calls = 0
          /\ entries' = entries
          /\ streaks' = streaks]_vars

\* a whitespace-only transcript arrived when an entry was already stored
C3_Witness ==
    /\ JournalRan
    /\ screen.heard = "blank"
    /\ "warning: No speech detected" \in screen.notices
    /\ Len(entries) >= 1

ClaimedSentinels == {<<>>, <<"u","n","a","v","a","i","l","a","b","l","e">>, <<"e","r","r","o","r">>, <<"n","/","a">>}

\* the text the i-th call of the last run returned, stripped as groq_generate
\* returns it
Returned(i) == Strip(screen.answers[i].content)

\* the i-th call of the last run gave a usable result: the credential is set,
\* the call raised nothing and the text is neither blank nor a sentinel
Usable(i) ==
    /\ screen.groq_key
    /\ screen.answers[i].ok
    /\ ToLower(Returned(i)) \notin ClaimedSentinels

TranscriptionFailed == JournalRan /\ screen.heard = "failed"

ShowsException ==
    screen.notices \cap {"error: API Error: <exception>",
                         "error: Unexpected error: <exception>"} # {}

StoreFailed == JournalRan /\ screen.fault # "none"

\* C6: a run in which a statement of the store fails ends with an error notice
\* and without the saved notice, and leaves both tables as they were.
C6_StoreFailure ==
    [][StoreFailed' =>
          /\ "error: Unexpected error: <exception>" \in screen'.notices
          /\ "success: Journal saved" \notin screen'.notices
          /\ entries' = entries
          /\ streaks' = streaks]_vars

\* the commit failed when an entry was already stored
C6_Witness ==
    /\ StoreFailed
    /\ screen.fault = "commit"
    /\ Len(entries) >= 1

\* row a comes before row b: by date descending, then by insertion descending
ComesBefore(a, b) ==
    \/ a.date # b.date /\ TextLeq(b.date, a.date)
    \/ a.date = b.date /\ a.id > b.id

\* C7, as claimed: the recent-entries view holds at most 10 rows, by date
\* descending and, within a date, the later-inserted row first; they are the
\* first 10 of that order.
C7_AsClaimed ==
    screen.page = "Past Entries" =>
        LET rows == screen.rows
        IN  /\ Len(rows) <= 10
            /\ Len(rows) = IF Len(entries) < 10 THEN Len(entries) ELSE 10
            /\ \A i, j \in DOMAIN rows : i < j => ComesBefore(rows[i], rows[j])
            /\ \A i \in DOMAIN rows, k \in DOMAIN entries :
                  (\A j \in DOMAIN rows : rows[j].id # entries[k].id)
                      => ComesBefore(rows[i], entries[k])

\* C10, as claimed: a reflection made by reflections_fallback names, in its
\* first bullet line, the lower-cased emotion stored with the same entry.
C10_AsClaimed ==
    (SavedRun /\ ~Usable(3)) =>
        Line(LastEntry.reflection)
            = <<"-"," ">> \o FeltPrefix \o ToLower(LastEntry.emotion) \o FeltSuffix

\* C8: sanitize_emotion_label applied twice gives what it gives applied once,
\* and a canonical label written in any letter case gives that label.
C8_Idempotent ==
    result.fn = "sanitize" =>
        /\ result.twice = result.once
        /\ \A i \in 1..Len(EMO_LABELS) :
              ToLower(input) = ToLower(EMO_LABELS[i]) => result.once = EMO_LABELS[i]

\* the label Stressed written in another letter case was normalised
C8_Witness ==
    /\ result.fn = "sanitize"
    /\ input # Stressed
    /\ ToLower(input) = ToLower(Stressed)
    /\ result.once = Stressed
    /\ result.twice = Stressed

\* the labels in the order the label-to-keyword mapping declares them
KeywordMappingOrder == [i \in 1..Len(EMO_KEYWORDS) |-> EMO_KEYWORDS[i][1]]

PositionIn(order, label) == CHOOSE i \in 1..Len(order) : order[i] = label

\* the label returned for input is one of the five; it is Calm when no keyword
\* occurs; otherwise no label has a higher sum, and of the labels with the same
\* sum it is the first in order
FallbackFollows(order) ==
    result.fn = "emotion" =>
        LET t == ToLower(input)
            got == result.label
        IN  /\ got \in Labels
            /\ (\A l \in Labels : Score(l, t) = 0) => got = Calm
            /\ (\E l \in Labels : Score(l, t) > 0) =>
                  \A l \in Labels :
                     /\ Score(l, t) <= Score(got, t)
                     /\ Score(l, t) = Score(got, t)
                           => PositionIn(order, got) <= PositionIn(order, l)

\* C9, as claimed: ties go to the label declared first in the label-to-keyword
\* mapping (Happy, Sad, Angry, Stressed, Calm).
C9_AsClaimed == FallbackFollows(KeywordMappingOrder)

\* C9, amended: ties go to the label that comes first in EMO_LABELS (Happy,
\* Sad, Angry, Calm, Stressed).
C9_FirstInLabelList == FallbackFollows(EMO_LABELS)

\* Calm and Stressed share the highest sum and Calm is returned
C9_Witness ==
    /\ result.fn = "emotion"
    /\ Score(Calm, ToLower(input)) > 0
    /\ Score(Calm, ToLower(input)) = Score(Stressed, ToLower(input))
    /\ \A l \in Labels : Score(l, ToLower(input)) <= Score(Calm, ToLower(input))
    /\ result.label = Calm

=============================================================================
